---- MODULE Spec2Model ----
(***************************************************************************)
(* Fractalis: the job-orchestration and state-sharing core.                *)
(*                                                                         *)
(* The flask controllers of fractalis/state/controller.py and              *)
(* fractalis/analytics/controller.py are modelled from their source.  The  *)
(* ETL handler (ETLHandler.handle), the data-state lookup                  *)
(* (get_data_state_for_task_id), the marker parser and the celery tasks    *)
(* are not part of the available sources; they are modelled from spec.md   *)
(* (sections 3, 4.2, 4.3 and 5).                                           *)
(***************************************************************************)
EXTENDS Integers, Sequences, FiniteSets, TLC

VARIABLES
    jobs,       \* the job store: job id n is the n-th record (job:<id>, data:<id>)
    sess,       \* per session: session['jobs'], session['data_tasks'], session['state_access']
    states,     \* the saved states: state id n is the n-th record (state:<id>)
    authUsed,   \* history: the credential of the latest request_state_access per (session, state id)
    poll        \* the get_job_details request in flight between its two reads

vars == <<jobs, sess, states, authUsed, poll>>

----------------------------------------------------------------------------
(* Bounds of the model. *)

MaxJobs == 2

MaxStates == 1

MaxMarkers == 2

(* Inputs. *)

Sessions == {"s1", "s2"}

Bodies == {"b1", "b2"}

Creds == {"valid", "invalid"}

Handlers == {"test"}

Servers == {"srv"}

JobNames == {"compute-pca", "unknown-job"}

----------------------------------------------------------------------------
(* Python values: a str key and an int key of a dict are never equal. *)

PyStr(n) == [t |-> "str", v |-> n]

PyInt(i) == [t |-> "int", v |-> i]

EmptyDict == [k \in {} |-> <<>>]

(* A faulty variant: dict.setdefault, a key that is present keeps its value. *)
DictSetDefault(d, k, x) == IF k \in DOMAIN d THEN d ELSE [q \in DOMAIN d \cup {k} |-> IF q = k THEN x ELSE d[q]]

(* d[k] = x *)
DictSet(d, k, x) == [q \in DOMAIN d \cup {k} |-> IF q = k THEN x ELSE d[q]]

SeqToSet(s) == {s[i] : i \in 1..Len(s)}

Max(S) == CHOOSE x \in S : \A y \in S : y <= x

----------------------------------------------------------------------------
(* Job statuses (spec.md section 3). *)

Live == {"Submitted", "Running", "Success"}

InFlight == {"Submitted", "Running"}

Final == {"Success", "Failure", "Cancelled"}

(* JobDescriptor {sourceHandler, server, requestBody, callerCredential}. *)
JobDescriptor(handler, server, body, cred) ==
    [sourceHandler |-> handler, server |-> server, requestBody |-> body,
     callerCredential |-> cred]

(* A faulty variant: the credential is part of the digest. *)
FingerprintWithCredential(D) ==
    <<D.sourceHandler, D.server, D.requestBody, D.callerCredential>>

(* The digest over {sourceHandler, server, requestBody}. *)
Fingerprint(D) == <<D.sourceHandler, D.server, D.requestBody>>

NoFingerprint == <<>>

(* The ids of the jobs with fingerprint fp that can be reused. *)
Existing(js, fp) ==
    {i \in 1..Len(js) : js[i].fingerprint = fp /\ js[i].status \in Live}

NewDataJob(D) ==
    [kind |-> "data", fingerprint |-> Fingerprint(D), body |-> D.requestBody,
     auth |-> D.callerCredential, status |-> "Submitted", result |-> "null",
     revoked |-> FALSE]

(* FingerprintCache.getOrSubmit(descriptor, credential, useExisting): the
   job id and the job store after the call.  Of several reusable jobs the
   most recent one is returned. *)
GetOrSubmit(js, D, useExisting) ==
    IF useExisting /\ Existing(js, Fingerprint(D)) # {}
    THEN [id |-> Max(Existing(js, Fingerprint(D))), jobs |-> js]
    ELSE [id |-> Len(js) + 1, jobs |-> Append(js, NewDataJob(D))]

(* ETLHandler.handle(descriptors, data_tasks, use_existing): one getOrSubmit
   per descriptor, in the order of the descriptors. *)
RECURSIVE HandleFrom(_, _, _, _, _, _, _)
HandleFrom(js, ids, descriptors, handler, server, cred, useExisting) ==
    IF descriptors = <<>>
    THEN [task_ids |-> ids, jobs |-> js]
    ELSE LET r == GetOrSubmit(js, JobDescriptor(handler, server, Head(descriptors), cred),
                              useExisting)
         IN HandleFrom(r.jobs, Append(ids, r.id), Tail(descriptors), handler,
                       server, cred, useExisting)

Handle(js, descriptors, handler, server, cred, useExisting) ==
    HandleFrom(js, <<>>, descriptors, handler, server, cred, useExisting)

(* redis.get('data:<task_id>'): the data state of a data task, None else. *)
HasDataState(js, id) == id \in 1..Len(js) /\ js[id].kind = "data"

(* get_data_state_for_task_id(task_id)['etl_state']: SUBMITTED until the job
   has finished. *)
EtlState(js, id) ==
    IF ~HasDataState(js, id) THEN "None"
    ELSE IF js[id].status \in InFlight THEN "SUBMITTED"
    ELSE IF js[id].status = "Success" THEN "SUCCESS"
    ELSE IF js[id].status = "Failure" THEN "FAILURE"
    ELSE "REVOKED"

----------------------------------------------------------------------------
Init ==
    /\ jobs = <<>>
    /\ sess = [s \in Sessions |->
                 [jobs |-> {}, data_tasks |-> {}, state_access |-> EmptyDict]]
    /\ states = <<>>
    /\ authUsed = [s \in Sessions |-> EmptyDict]
    /\ poll = [pc |-> "idle"]

----------------------------------------------------------------------------
(* The ETL plugins (spec.md 4.1). *)

(* The handlers and the request bodies of the plugins of the repository,
   next to the ones of the test handler: "h1" is a tranSMART highdim
   descriptor, "a1" an Ada descriptor of a String field. *)
PluginHandlers == Handlers \cup {"transmart", "ada"}

PluginBodies == Bodies \cup {"h1", "a1"}

(* descriptor['data_type'] (for Ada: descriptor['dictionary']['fieldType']). *)
data_type(body) ==
    CASE body = "h1" -> "highdim"
      [] body = "a1" -> "String"
      [] OTHER -> "foo"

(* A faulty variant: one of the two conditions is enough. *)
HighdimETL_can_handle_either(handler, body) ==
    handler = "transmart" \/ data_type(body) = "highdim"

(* HighdimETL.can_handle(handler, descriptor) *)
HighdimETL_can_handle(handler, body) ==
    handler = "transmart" /\ data_type(body) = "highdim"

(* StringETL.can_handle(handler, descriptor) *)
StringETL_can_handle(handler, body) ==
    handler = "ada" /\ data_type(body) = "String"

(* FooETL: _handler = 'test', _data_type = 'foo' *)
FooETL_can_handle(handler, body) ==
    handler = "test" /\ data_type(body) = "foo"

(* The registered plugins, in the order of their registration. *)
Registry == <<"FooETL", "HighdimETL", "StringETL">>

can_handle(plugin, handler, body) ==
    CASE plugin = "HighdimETL" -> HighdimETL_can_handle(handler, body)
      [] plugin = "StringETL" -> StringETL_can_handle(handler, body)
      [] plugin = "FooETL" -> FooETL_can_handle(handler, body)

(* The scan of the registered plugins: the first one that can handle the
   request, "None" when there is none. *)
RECURSIVE Scan(_, _, _)
Scan(plugins, handler, body) ==
    IF plugins = <<>> THEN "None"
    ELSE IF can_handle(Head(plugins), handler, body) THEN Head(plugins)
    ELSE Scan(Tail(plugins), handler, body)

(* dispatch(sourceHandlerName, descriptor) *)
Dispatch(handler, body) == Scan(Registry, handler, body)

(* POST /data (the data controller): submit one extraction for the session;
   a request no plugin can handle fails before anything is written. *)
CreateData(s, body, handler, server, cred, useExisting) ==
    IF Dispatch(handler, body) = "None"
    THEN UNCHANGED vars
    ELSE LET r == Handle(jobs, <<body>>, handler, server, cred, useExisting)
         IN /\ Len(r.jobs) <= MaxJobs
            /\ jobs' = r.jobs
            /\ sess' = [sess EXCEPT ![s].data_tasks = @ \cup SeqToSet(r.task_ids)]
            /\ UNCHANGED <<states, authUsed, poll>>

----------------------------------------------------------------------------
(* analytics/controller.py *)

AnalyticsJobFactory(job_name) == IF job_name = "compute-pca" THEN job_name ELSE "None"

NewAnalyticsJob ==
    [kind |-> "analytics", fingerprint |-> NoFingerprint, body |-> "none",
     auth |-> "valid", status |-> "Submitted", result |-> "null",
     revoked |-> FALSE]

(* create_job: POST /analytics. *)
create_job(s, job_name) ==
    IF AnalyticsJobFactory(job_name) = "None"
    THEN UNCHANGED vars
    ELSE /\ Len(jobs) < MaxJobs
         /\ jobs' = Append(jobs, NewAnalyticsJob)
         /\ sess' = [sess EXCEPT ![s].jobs = @ \cup {Len(jobs) + 1}]
         /\ UNCHANGED <<states, authUsed, poll>>

(* celery's AsyncResult: the task meta as stored now. *)
TaskMeta(js, job_id) == [status |-> js[job_id].status, result |-> js[job_id].result]

(* get_job_details: GET /analytics/<job_id>.  The response to a job id that
   is not in session['jobs']. *)
get_job_details_denied(s, job_id) ==
    /\ job_id \notin sess[s].jobs
    /\ UNCHANGED vars

(* get_job_details, lines 40-44: with wait=1 the handler blocks until the
   task is ready; then it reads async_result.state. *)
get_job_details_state(s, job_id, wait) ==
    /\ poll.pc = "idle"
    /\ job_id \in sess[s].jobs
    /\ wait => jobs[job_id].status \in Final
    /\ poll' = [pc |-> "result", job_id |-> job_id, meta |-> TaskMeta(jobs, job_id)]
    /\ UNCHANGED <<jobs, sess, states, authUsed>>

(* A faulty variant: async_result.result is read before async_result.state. *)
JobDetailsResultFirst(p, js) ==
    [status |-> TaskMeta(js, p.job_id).status, result |-> p.meta.result]

(* get_job_details, lines 44-49: the response; async_result.result is read
   after async_result.state, from the task meta celery cached at the first
   read when the task was ready by then, from the store otherwise. *)
JobDetails(p, js) ==
    [status |-> p.meta.status,
     result |-> IF p.meta.status \in Final THEN p.meta.result
                ELSE TaskMeta(js, p.job_id).result]

get_job_details_result ==
    /\ poll.pc = "result"
    /\ poll' = [pc |-> "idle"]
    /\ UNCHANGED <<jobs, sess, states, authUsed>>

(* A faulty variant: the handler itself marks the job cancelled, whatever its status. *)
RevokeMarksCancelled(js, job_id) ==
    [js EXCEPT ![job_id].revoked = TRUE, ![job_id].status = "Cancelled"]

(* celery.control.revoke(job_id, terminate=True): the revoke request is
   broadcast to the workers; the task's stored state changes only when a
   worker handles the request. *)
Revoke(js, job_id) == [js EXCEPT ![job_id].revoked = TRUE]

(* A faulty variant: the job id is looked up in the jobs of all sessions. *)
cancel_job_any_session(s, job_id) ==
    IF job_id \notin UNION {sess[u].jobs : u \in Sessions}
    THEN UNCHANGED vars
    ELSE /\ jobs' = Revoke(jobs, job_id)
         /\ sess' = [sess EXCEPT ![s].jobs = @ \ {job_id}]
         /\ UNCHANGED <<states, authUsed, poll>>

(* A faulty variant: the job id stays in session['jobs']. *)
cancel_job_keeps_id(s, job_id) ==
    IF job_id \notin sess[s].jobs
    THEN UNCHANGED vars
    ELSE /\ jobs' = Revoke(jobs, job_id)
         /\ UNCHANGED <<sess, states, authUsed, poll>>

(* cancel_job: DELETE /analytics/<job_id>. *)
cancel_job(s, job_id) ==
    IF job_id \notin sess[s].jobs
    THEN UNCHANGED vars
    ELSE /\ jobs' = Revoke(jobs, job_id)
         /\ sess' = [sess EXCEPT ![s].jobs = @ \ {job_id}]
         /\ UNCHANGED <<states, authUsed, poll>>

----------------------------------------------------------------------------
(* state/controller.py *)

(* A template is the sequence of the task ids of its '$...$' markers, in the
   order of the text; the text between the markers is never touched. *)
Templates == UNION {[1..n -> 1..MaxJobs] : n \in 0..MaxMarkers}

(* The orders list(set(task_ids)) can produce: every sequence without
   repetition over the set of the ids. *)
Orders(S) ==
    {q \in [1..Cardinality(S) -> S] : \A i, k \in 1..Cardinality(S) : q[i] = q[k] => i = k}

(* save_state, lines 44-58: whether every task id has a data state. *)
AllFound(js, task_ids) == \A i \in 1..Len(task_ids) : HasDataState(js, task_ids[i])

Descriptors(js, task_ids) == [i \in 1..Len(task_ids) |-> js[task_ids[i]].body]

(* A faulty variant: the check "if not matches" is missing. *)
save_state_code_unguarded(js, state, task_ids) ==
    IF ~AllFound(js, task_ids) THEN 400
    ELSE IF Len(state) # Len(Descriptors(js, task_ids)) THEN 500
    ELSE 201

(* save_state: the response code to POST /state for the payload and one
   order of list(set(task_ids)). *)
save_state_code(js, state, task_ids) ==
    IF state = <<>> THEN 400
    ELSE IF ~AllFound(js, task_ids) THEN 400
    ELSE IF Len(state) # Len(Descriptors(js, task_ids)) THEN 500
    ELSE 201

MetaState(js, state, handler, server, task_ids) ==
    [state |-> state, server |-> server, handler |-> handler,
     task_ids |-> task_ids, descriptors |-> Descriptors(js, task_ids)]

save_state(state, handler, server, task_ids) ==
    /\ task_ids \in Orders(SeqToSet(state))
    /\ IF save_state_code(jobs, state, task_ids) = 201
       THEN /\ Len(states) < MaxStates
            /\ states' = Append(states, MetaState(jobs, state, handler, server, task_ids))
       ELSE UNCHANGED states
    /\ UNCHANGED <<jobs, sess, authUsed, poll>>

(* redis.get('state:<state_id>') *)
HasState(sts, state_id) == state_id \in 1..Len(sts)

(* A faulty variant: use_existing=False *)
UseExistingOff == FALSE

(* request_state_access, line 98: use_existing=True *)
UseExisting == TRUE

(* request_state_access, lines 93-99: the jobs of the access request. *)
AccessTasks(js, meta_state, auth) ==
    Handle(js, meta_state.descriptors, meta_state.handler, meta_state.server,
           auth, UseExisting)

(* A faulty variant: the grant is stored before the saved state is looked up. *)
request_state_access_grant_first(s, state_id, auth) ==
    IF ~HasState(states, state_id)
    THEN /\ sess' = [sess EXCEPT ![s].state_access = DictSet(@, PyStr(state_id), <<>>)]
         /\ UNCHANGED <<jobs, states, authUsed, poll>>
    ELSE LET r == AccessTasks(jobs, states[state_id], auth)
         IN /\ Len(r.jobs) <= MaxJobs
            /\ jobs' = r.jobs
            /\ sess' = [sess EXCEPT
                          ![s].data_tasks = @ \cup SeqToSet(r.task_ids),
                          ![s].state_access = DictSet(@, PyStr(state_id), r.task_ids)]
            /\ authUsed' = [authUsed EXCEPT ![s] = DictSet(@, PyStr(state_id), auth)]
            /\ UNCHANGED <<states, poll>>

(* request_state_access: POST /state/<state_id>. *)
request_state_access(s, state_id, auth) ==
    IF ~HasState(states, state_id)
    THEN UNCHANGED vars
    ELSE LET r == AccessTasks(jobs, states[state_id], auth)
         IN /\ Len(r.jobs) <= MaxJobs
            /\ jobs' = r.jobs
            /\ sess' = [sess EXCEPT
                          ![s].data_tasks = @ \cup SeqToSet(r.task_ids),
                          ![s].state_access = DictSet(@, PyStr(state_id), r.task_ids)]
            /\ authUsed' = [authUsed EXCEPT ![s] = DictSet(@, PyStr(state_id), auth)]
            /\ UNCHANGED <<states, poll>>

(* get_state_data, lines 128-138: the task ids of the grant are checked in
   order and the first one that is not SUCCESS decides. *)
RECURSIVE CheckEtls(_, _)
CheckEtls(js, task_ids) ==
    IF task_ids = <<>> THEN 200
    ELSE IF EtlState(js, Head(task_ids)) = "SUBMITTED" THEN 202
    ELSE IF EtlState(js, Head(task_ids)) = "SUCCESS" THEN CheckEtls(js, Tail(task_ids))
    ELSE 403

(* re.sub(pattern=task_id, repl=repl, string=state) *)
ReSub(state, task_id, repl) ==
    [k \in 1..Len(state) |-> IF state[k] = task_id THEN repl ELSE state[k]]

(* get_state_data, lines 140-143: the replacement of the i-th task id is
   session['state_access'][i], a lookup of the int i in the dict whose keys
   are the state ids (str): a KeyError when the key is missing. *)
RECURSIVE Substitute(_, _, _)
Substitute(i, meta_state, state_access) ==
    IF i >= Len(meta_state.task_ids)
    THEN [error |-> "none", meta_state |-> meta_state]
    ELSE IF PyInt(i) \notin DOMAIN state_access
    THEN [error |-> "KeyError", meta_state |-> meta_state]
    ELSE Substitute(i + 1,
                    [meta_state EXCEPT
                       !.state = ReSub(@, meta_state.task_ids[i + 1], state_access[PyInt(i)])],
                    state_access)

(* A faulty variant: the saved state is returned without the check of the ETLs. *)
get_state_data_unchecked(js, sts, session, state_id) ==
    IF ~HasState(sts, state_id)
    THEN [code |-> 500, error |-> "TypeError"]
    ELSE [code |-> 200, state |-> sts[state_id]]

(* get_state_data: the response to GET /state/<state_id>. *)
get_state_data(js, sts, session, state_id) ==
    IF ~HasState(sts, state_id)
    THEN [code |-> 500, error |-> "TypeError"]
    ELSE IF PyStr(state_id) \notin DOMAIN session.state_access
    THEN [code |-> 404]
    ELSE IF CheckEtls(js, session.state_access[PyStr(state_id)]) # 200
    THEN [code |-> CheckEtls(js, session.state_access[PyStr(state_id)])]
    ELSE LET r == Substitute(0, sts[state_id], session.state_access)
         IN IF r.error # "none"
            THEN [code |-> 500, error |-> r.error]
            ELSE [code |-> 200, state |-> r.meta_state]

(* A faulty variant: the handler stores the state it has rewritten for the
   first task id of the session's grant. *)
GetStateDataStoresRewritten(s, state_id) ==
    IF HasState(states, state_id) /\ PyStr(state_id) \in DOMAIN sess[s].state_access
    THEN /\ states' = [states EXCEPT
                         ![state_id].state =
                            ReSub(@, states[state_id].task_ids[1],
                                  sess[s].state_access[PyStr(state_id)][1])]
         /\ UNCHANGED <<jobs, sess, authUsed, poll>>
    ELSE UNCHANGED vars

(* GET /state/<state_id>: the handler writes nothing. *)
GetStateData(s, state_id) ==
    /\ get_state_data(jobs, states, sess[s], state_id).code \in {200, 202, 403, 404, 500}
    /\ UNCHANGED vars

----------------------------------------------------------------------------
(* The workers (spec.md 4.3 and 5). *)

(* A worker picks the job up: Submitted -> Running.  A revoked job is not
   started. *)
WorkerStart(j) ==
    /\ jobs[j].status = "Submitted"
    /\ ~jobs[j].revoked
    /\ jobs' = [jobs EXCEPT ![j].status = "Running"]
    /\ UNCHANGED <<sess, states, authUsed, poll>>

(* The outcomes of the work: an extraction with a credential the plugin does
   not authorize fails; any work can fail. *)
Outcomes(job) == IF job.auth = "invalid" THEN {"error"} ELSE {"data", "error"}

(* The completion write, first the result... *)
WorkerWriteResult(j, outcome) ==
    /\ jobs[j].status = "Running"
    /\ jobs[j].result = "null"
    /\ outcome \in Outcomes(jobs[j])
    /\ jobs' = [jobs EXCEPT ![j].result = outcome]
    /\ UNCHANGED <<sess, states, authUsed, poll>>

(* A faulty variant: a failure of the work is dropped and the job stays Running. *)
CompletionStatusDropsFailure(job) == IF job.result = "error" THEN "Running" ELSE "Success"

(* The status of the completion write: Failure when the work failed. *)
CompletionStatus(job) == IF job.result = "error" THEN "Failure" ELSE "Success"

(* ... then the status. *)
WorkerWriteStatus(j) ==
    /\ jobs[j].status = "Running"
    /\ jobs[j].result # "null"
    /\ jobs' = [jobs EXCEPT ![j].status = CompletionStatus(jobs[j])]
    /\ UNCHANGED <<sess, states, authUsed, poll>>

(* A worker handles the revoke request of a job that has not finished. *)
WorkerRevoke(j) ==
    /\ jobs[j].revoked
    /\ jobs[j].status \in InFlight
    /\ jobs' = [jobs EXCEPT ![j].status = "Cancelled"]
    /\ UNCHANGED <<sess, states, authUsed, poll>>

----------------------------------------------------------------------------
JobIds == 1..Len(jobs)

Requests(useExistingFlags) ==
    \/ \E s \in Sessions, b \in Bodies, h \in Handlers, v \in Servers,
          c \in Creds, ue \in useExistingFlags : CreateData(s, b, h, v, c, ue)
    \/ \E s \in Sessions, n \in JobNames : create_job(s, n)
    \/ \E s \in Sessions, j \in 1..MaxJobs : get_job_details_denied(s, j)
    \/ \E s \in Sessions, j \in 1..MaxJobs, w \in BOOLEAN : get_job_details_state(s, j, w)
    \/ get_job_details_result
    \/ \E s \in Sessions, j \in 1..MaxJobs : cancel_job(s, j)
    \/ \E st \in Templates, h \in Handlers, v \in Servers :
          \E ids \in Orders(SeqToSet(st)) : save_state(st, h, v, ids)
    \/ \E s \in Sessions, i \in 1..MaxStates, c \in Creds : request_state_access(s, i, c)
    \/ \E s \in Sessions, i \in 1..MaxStates : GetStateData(s, i)

Workers ==
    \/ \E j \in JobIds : WorkerStart(j)
    \/ \E j \in JobIds, o \in {"data", "error"} : WorkerWriteResult(j, o)
    \/ \E j \in JobIds : WorkerWriteStatus(j)
    \/ \E j \in JobIds : WorkerRevoke(j)

Next == Requests(BOOLEAN) \/ Workers

Spec == Init /\ [][Next]_vars

(* The system in which every submission is made with useExisting = true. *)
NextUE == Requests({TRUE}) \/ Workers

SpecUE == Init /\ [][NextUE]_vars

(* The system of the submissions and cancellations alone, with the handlers
   and request bodies of all plugins. *)
NextDispatch ==
    \/ \E s \in Sessions, b \in PluginBodies, h \in PluginHandlers, v \in Servers,
          c \in Creds : CreateData(s, b, h, v, c, TRUE)
    \/ \E s \in Sessions, n \in JobNames : create_job(s, n)
    \/ \E s \in Sessions, j \in 1..MaxJobs : cancel_job(s, j)
    \/ Workers

SpecDispatch == Init /\ [][NextDispatch]_vars

(* The steps the worker pool can take for job j. *)
WorkerStep(j) ==
    /\ j \in JobIds
    /\ \/ WorkerStart(j)
       \/ \E o \in {"data", "error"} : WorkerWriteResult(j, o)
       \/ WorkerWriteStatus(j)
       \/ WorkerRevoke(j)

(* The system with a fair worker pool: no job whose next worker step stays
   possible is left waiting for it forever. *)
FairSpec == Spec /\ \A j \in 1..MaxJobs : WF_vars(WorkerStep(j))

----------------------------------------------------------------------------
(* The properties. *)

StateIds == 1..MaxStates

HasGrant(s, i) == PyStr(i) \in DOMAIN sess[s].state_access

Grant(s, i) == sess[s].state_access[PyStr(i)]

GrantStatuses(s, i) == {jobs[Grant(s, i)[k]].status : k \in 1..Len(Grant(s, i))}

Read(s, i) == get_state_data(jobs, states, sess[s], i)

(* The response carries the saved state. *)
Reveals(r) == r.code = 200 \/ "state" \in DOMAIN r

(* C1: get_state_data returns the saved state only to a session that holds a
   grant for the state id all of whose jobs have status Success; every other
   response carries no state. *)
C1_StateOnlyAfterVerifiedAccess ==
    \A s \in Sessions, i \in StateIds :
        Reveals(Read(s, i)) =>
            /\ HasGrant(s, i)
            /\ \A k \in 1..Len(Grant(s, i)) :
                  /\ Grant(s, i)[k] \in JobIds
                  /\ jobs[Grant(s, i)[k]].status = "Success"

(* A session holds a grant with a failed job and a grant-less session asks
   too: the first is answered 403, the second 404. *)
C1_Witness ==
    \E s, u \in Sessions, i \in StateIds :
        /\ HasGrant(s, i)
        /\ "Failure" \in GrantStatuses(s, i)
        /\ Read(s, i).code = 403
        /\ ~HasGrant(u, i)
        /\ Read(u, i).code = 404

(* C2 (as claimed): for every grant, the answer is denied iff some job of the
   grant is Failure or Cancelled, whatever its position, and pending iff some
   job is Submitted or Running and none is Failure or Cancelled. *)
C2_OutcomePartition ==
    \A s \in Sessions, i \in StateIds :
        HasGrant(s, i) =>
            /\ Read(s, i).code = 403
                  <=> GrantStatuses(s, i) \cap {"Failure", "Cancelled"} # {}
            /\ Read(s, i).code = 202
                  <=> /\ GrantStatuses(s, i) \cap InFlight # {}
                      /\ GrantStatuses(s, i) \cap {"Failure", "Cancelled"} = {}

(* C3 (as claimed): after an access request with a credential the plugin
   does not authorize, no job of the grant succeeds and the saved state is
   not returned to the session. *)
C3_InvalidCredentialNeverPasses ==
    \A s \in Sessions, i \in StateIds :
        (HasGrant(s, i) /\ authUsed[s][PyStr(i)] = "invalid") =>
            /\ "Success" \notin GrantStatuses(s, i)
            /\ ~Reveals(Read(s, i))

IndexOf(seq, x) == CHOOSE k \in 1..Len(seq) : seq[k] = x

(* The saved state with every marker of the i-th task id rewritten to the
   i-th job of the grant. *)
Rewritten(meta_state, grant) ==
    [meta_state EXCEPT
       !.state = [k \in 1..Len(meta_state.state) |->
                    grant[IndexOf(meta_state.task_ids, meta_state.state[k])]]]

(* C4 (as claimed): when all jobs of the grant are Success, get_state_data
   returns the saved state with the i-th task id replaced by the i-th job of
   the grant and nothing else changed. *)
C4_RoundTrip ==
    \A s \in Sessions, i \in StateIds :
        (HasGrant(s, i) /\ GrantStatuses(s, i) = {"Success"}) =>
            /\ Read(s, i).code = 200
            /\ Read(s, i).state = Rewritten(states[i], Grant(s, i))

DataJobs == {j \in JobIds : jobs[j].kind = "data"}

Descriptor(j, cred) == JobDescriptor("test", "srv", jobs[j].body, cred)

(* C5: when every submission uses useExisting = true, at most one job per
   fingerprint is Submitted or Running, and while it is, getOrSubmit returns
   it, for every credential, and creates nothing. *)
C5_OneJobInFlightPerFingerprint ==
    /\ \A j, k \in DataJobs :
          (/\ jobs[j].fingerprint = jobs[k].fingerprint
           /\ jobs[j].status \in InFlight
           /\ jobs[k].status \in InFlight) => j = k
    /\ \A j \in DataJobs, c \in Creds :
          jobs[j].status \in InFlight =>
              GetOrSubmit(jobs, Descriptor(j, c), TRUE) = [id |-> j, jobs |-> jobs]

(* Both sessions were given the same job, which is running. *)
C5_Witness ==
    \E j \in DataJobs :
        /\ jobs[j].status = "Running"
        /\ \A s \in Sessions : j \in sess[s].data_tasks

(* C6: getOrSubmit with useExisting returns a job of the fingerprint that is
   Submitted, Running or Success and leaves the job store alone when there is
   one; otherwise, and without useExisting, it appends a job with a fresh id,
   status Submitted and no result; an access request reuses every job it can. *)
C6_GetOrSubmit ==
    /\ \A b \in Bodies, c \in Creds, ue \in BOOLEAN :
          LET D == JobDescriptor("test", "srv", b, c)
              r == GetOrSubmit(jobs, D, ue)
          IN IF ue /\ Existing(jobs, Fingerprint(D)) # {}
             THEN r.jobs = jobs /\ r.id \in Existing(jobs, Fingerprint(D))
             ELSE /\ r.id = Len(jobs) + 1
                  /\ Len(r.jobs) = Len(jobs) + 1
                  /\ SubSeq(r.jobs, 1, Len(jobs)) = jobs
                  /\ r.jobs[r.id].status = "Submitted"
                  /\ r.jobs[r.id].result = "null"
                  /\ r.jobs[r.id].fingerprint = Fingerprint(D)
    /\ \A i \in 1..Len(states), c \in Creds :
          LET r == AccessTasks(jobs, states[i], c)
          IN \A k \in 1..Len(r.task_ids) :
                LET fp == Fingerprint(JobDescriptor(states[i].handler, states[i].server,
                                                    states[i].descriptors[k], c))
                IN Existing(jobs, fp) # {} => r.task_ids[k] \in Existing(jobs, fp)

(* A job failed and a new one was created for its fingerprint, and that one
   was then handed to the other session as well. *)
C6_Witness ==
    \E j, k \in DataJobs :
        /\ j < k
        /\ jobs[j].fingerprint = jobs[k].fingerprint
        /\ jobs[j].status = "Failure"
        /\ jobs[k].status \in Live
        /\ \A s \in Sessions : k \in sess[s].data_tasks

(* C7: the fingerprint does not depend on the credential: descriptors that
   differ only in the credential have the same fingerprint, and so have the
   jobs created for them. *)
C7_FingerprintIgnoresCredential ==
    /\ \A h \in Handlers, v \in Servers, b \in Bodies, c1, c2 \in Creds :
          Fingerprint(JobDescriptor(h, v, b, c1)) = Fingerprint(JobDescriptor(h, v, b, c2))
    /\ \A j, k \in DataJobs :
          jobs[j].body = jobs[k].body => jobs[j].fingerprint = jobs[k].fingerprint

(* Two jobs were created for the same request under different credentials. *)
C7_Witness ==
    \E j, k \in DataJobs :
        /\ jobs[j].body = jobs[k].body
        /\ jobs[j].auth # jobs[k].auth

Transitions ==
    {<<"Submitted", "Running">>, <<"Running", "Success">>, <<"Running", "Failure">>,
     <<"Submitted", "Cancelled">>, <<"Running", "Cancelled">>}

JobStep(a, b) ==
    /\ a.status # b.status => <<a.status, b.status>> \in Transitions
    /\ (a.status # b.status /\ b.status = "Cancelled") => a.revoked
    /\ a.status \in Final => (b.status = a.status /\ b.result = a.result)
    /\ a.result # b.result => a.status = "Running"

(* C8: a job is created Submitted and without result; its status moves only
   along Submitted -> Running -> {Success, Failure} or, once cancel was
   called for it, from Submitted or Running to Cancelled; Success, Failure
   and Cancelled are never left; the result changes only while Running. *)
C8_StateMachine ==
    [][/\ Len(jobs') >= Len(jobs)
       /\ \A j \in JobIds : JobStep(jobs[j], jobs'[j])
       /\ \A j \in (Len(jobs) + 1)..Len(jobs') :
             jobs'[j].status = "Submitted" /\ jobs'[j].result = "null"]_vars

(* One job was cancelled after it had succeeded and is still Success, another
   was cancelled in flight and is Cancelled. *)
C8_Witness ==
    \E j, k \in JobIds :
        /\ jobs[j].revoked /\ jobs[j].status = "Success"
        /\ jobs[k].revoked /\ jobs[k].status = "Cancelled"

(* C9: a job with status Success has its result, in the store at every
   moment of the worker's completion write and in the response
   get_job_details builds from its two reads. *)
C9_SuccessHasResult ==
    /\ \A j \in JobIds : jobs[j].status = "Success" => jobs[j].result # "null"
    /\ poll.pc = "result" =>
          (JobDetails(poll, jobs).status = "Success"
              => JobDetails(poll, jobs).result # "null")

(* The worker completed the job between the two reads of get_job_details. *)
C9_Witness ==
    /\ poll.pc = "result"
    /\ poll.meta = [status |-> "Running", result |-> "null"]
    /\ jobs[poll.job_id].status = "Success"

(* C10 (as claimed): once cancel_job has been answered for a running job,
   the job is Cancelled, whether or not a worker has handled the request. *)
C10_CancelledWithoutWorker ==
    \A j \in JobIds : jobs[j].revoked => jobs[j].status # "Running"

(* C11: a get_job_details or cancel_job request of a session for a job id
   that is not in its session['jobs'] is answered not-found and changes
   nothing: no job's status, result or revoke mark, no session's job set,
   and no task meta is read for a response. *)
C11_ForeignJobUntouched ==
    [][\A s \in Sessions, j \in 1..MaxJobs :
          (/\ j \notin sess[s].jobs
           /\ \/ get_job_details_denied(s, j)
              \/ \E w \in BOOLEAN : get_job_details_state(s, j, w)
              \/ cancel_job(s, j))
             => UNCHANGED vars]_vars

(* A session holds a running analytics job that the other session does not
   hold, so the other session's requests for it are answered not-found. *)
C11_Witness ==
    \E s, u \in Sessions, j \in JobIds :
        /\ j \in sess[s].jobs
        /\ j \notin sess[u].jobs
        /\ jobs[j].status = "Running"
        /\ ~jobs[j].revoked
        /\ poll.pc = "idle"

(* C12: a request_state_access for a state id under which no saved state is
   stored is answered not-found and changes nothing: no job is created, no
   grant is stored or overwritten, no session's job set changes. *)
C12_AccessToMissingState ==
    [][\A s \in Sessions, i \in 1..MaxStates, c \in Creds :
          (~HasState(states, i) /\ request_state_access(s, i, c))
             => UNCHANGED vars]_vars

(* Jobs exist, one of them in a session's data tasks, and no state is saved:
   every access request is answered not-found. *)
C12_Witness ==
    /\ states = <<>>
    /\ \E s \in Sessions : sess[s].data_tasks # {}
    /\ \A s \in Sessions : sess[s].state_access = EmptyDict

(* C13: a request_state_access that finds the saved state stores as the
   grant of (session, state id) exactly the ids ETLHandler.handle returns for
   the descriptors of the state, one per descriptor and in their order, in
   place of any earlier grant; every id of the grant is in the session's
   data tasks; the other grants of the session and the other sessions are
   unchanged.  (A request that changes anything writes the session's record
   or the credential recorded for it.) *)
C13_GrantIsHandleResult ==
    [][\A s \in Sessions, i \in 1..MaxStates, c \in Creds :
          (/\ HasState(states, i)
           /\ sess'[s] # sess[s] \/ authUsed'[s] # authUsed[s]
           /\ request_state_access(s, i, c)) =>
             LET m == states[i]
                 r == Handle(jobs, m.descriptors, m.handler, m.server, c, TRUE)
                 g == sess'[s].state_access[PyStr(i)]
             IN /\ DOMAIN sess'[s].state_access = DOMAIN sess[s].state_access \cup {PyStr(i)}
                /\ g = r.task_ids
                /\ Len(g) = Len(m.descriptors)
                /\ \A k \in 1..Len(g) :
                      /\ g[k] \in 1..Len(jobs')
                      /\ jobs'[g[k]].fingerprint =
                            Fingerprint(JobDescriptor(m.handler, m.server, m.descriptors[k], c))
                      /\ g[k] \in sess'[s].data_tasks
                /\ \A q \in DOMAIN sess[s].state_access \ {PyStr(i)} :
                      sess'[s].state_access[q] = sess[s].state_access[q]
                /\ \A u \in Sessions \ {s} : sess'[u] = sess[u]]_vars

(* The job of the first grant failed and a second access request replaced
   the grant by a new job. *)
C13_Witness ==
    \E s \in Sessions, i \in StateIds :
        /\ HasGrant(s, i)
        /\ states[i].task_ids = <<1>>
        /\ jobs[1].status = "Failure"
        /\ Grant(s, i) = <<2>>
        /\ {1, 2} \subseteq sess[s].data_tasks

(* C14: a save_state whose payload has no marker is answered with an error
   and stores nothing; a save_state that stores a state stores it under an
   id no earlier saved state has, the earlier ones keeping theirs, and its
   payload has a marker. *)
C14_SaveNeedsMarkers ==
    [][/\ save_state_code(jobs, <<>>, <<>>) = 400
       /\ \A h \in Handlers, v \in Servers :
             save_state(<<>>, h, v, <<>>) => UNCHANGED vars
       /\ states' # states =>
             \A st \in Templates, h \in Handlers, v \in Servers :
                \A ids \in Orders(SeqToSet(st)) :
                   save_state(st, h, v, ids) =>
                      /\ st # <<>>
                      /\ Len(states') = Len(states) + 1
                      /\ SubSeq(states', 1, Len(states)) = states
                      /\ states'[Len(states')].state = st]_vars

(* A state with two markers has been saved. *)
C14_Witness ==
    /\ Len(states) = 1
    /\ Len(states[1].state) = 2
    /\ Len(states[1].task_ids) = 2

(* C15 (as claimed): a session without a grant for a state id is answered
   404 (access not requested) by get_state_data, whether or not a state is
   saved under the id and whatever the jobs' statuses, and the response
   carries no state. *)
C15_NoGrantNotRequested ==
    \A s \in Sessions, i \in StateIds :
        ~HasGrant(s, i) =>
            /\ Read(s, i).code = 404
            /\ ~Reveals(Read(s, i))

(* The grant and the job store after one more request_state_access of the
   session for the state id with the credential of its latest request. *)
Repeated(s, i) == AccessTasks(jobs, states[i], authUsed[s][PyStr(i)])

(* C16 (as claimed): when all jobs of a session's grant are Success, a
   second request_state_access with the same state id and credential gives
   a grant whose jobs are all Success, and get_state_data returns the
   saved state, rewritten exactly as after the first request. *)
C16_AccessIdempotent ==
    \A s \in Sessions, i \in StateIds :
        (HasGrant(s, i) /\ GrantStatuses(s, i) = {"Success"}) =>
            LET r == Repeated(s, i)
                session == [sess[s] EXCEPT
                              !.state_access = DictSet(@, PyStr(i), r.task_ids)]
            IN /\ \A k \in 1..Len(r.task_ids) : r.jobs[r.task_ids[k]].status = "Success"
               /\ Read(s, i).code = 200
               /\ get_state_data(r.jobs, states, session, i) = Read(s, i)

(* C17 (as claimed): a get_job_details with wait=1 returns when the job has
   left {Submitted, Running} or when the timeout elapses; the timeout can
   elapse at any moment, so the waiting request of a session for one of its
   jobs can return in every state, whatever the status of the job. *)
C17_WaitReturnsAtTimeout ==
    \A s \in Sessions, j \in JobIds :
        (j \in sess[s].jobs /\ poll.pc = "idle") =>
            ENABLED get_job_details_state(s, j, TRUE)

(* C18: with a fair worker pool every job that is Submitted or Running
   eventually is Success, Failure or Cancelled; a job whose work failed is
   never Success, and a job that is Failure has the diagnostic as its
   result, in the store and in the response of get_job_details. *)
C18_JobsFinish ==
    /\ [](\A j \in JobIds :
            /\ jobs[j].status = "Failure" => jobs[j].result = "error"
            /\ jobs[j].result = "error" => jobs[j].status # "Success")
    /\ [](poll.pc = "result" =>
            (JobDetails(poll, jobs).status = "Failure"
                => JobDetails(poll, jobs).result = "error"))
    /\ \A j \in 1..MaxJobs :
          (j \in JobIds /\ jobs[j].status \in InFlight)
             ~> (j \in JobIds /\ jobs[j].status \in Final)

(* The work of one job failed and the job is Failure with its diagnostic,
   read by a get_job_details that started while it was running; another job
   was cancelled in flight. *)
C18_Witness ==
    \E j, k \in JobIds :
        /\ jobs[j].status = "Failure"
        /\ jobs[j].result = "error"
        /\ poll.pc = "result"
        /\ poll.job_id = j
        /\ poll.meta.status = "Running"
        /\ jobs[k].status = "Cancelled"

(* The handler and the data type the plugins are written for. *)
PluginHandler(plugin) ==
    CASE plugin = "HighdimETL" -> "transmart"
      [] plugin = "StringETL" -> "ada"
      [] plugin = "FooETL" -> "test"

PluginDataType(plugin) ==
    CASE plugin = "HighdimETL" -> "highdim"
      [] plugin = "StringETL" -> "String"
      [] plugin = "FooETL" -> "foo"

Matching(handler, body) ==
    {k \in 1..Len(Registry) : can_handle(Registry[k], handler, body)}

(* The request can change something. *)
Changes(request) == request /\ vars' # vars

(* C19: a plugin can handle a request only when the handler and the data
   type of the descriptor are both its own; dispatch returns the first
   registered plugin that can handle the request; a submission for which no
   plugin (for analytics: no job of the name) is found cannot change
   anything, so every data job in the store and in a session's data tasks
   is one a plugin can handle. *)
C19_DispatchFirstMatch ==
    /\ \A h \in PluginHandlers, b \in PluginBodies :
          /\ \A k \in 1..Len(Registry) :
                can_handle(Registry[k], h, b) =>
                   /\ h = PluginHandler(Registry[k])
                   /\ data_type(b) = PluginDataType(Registry[k])
          /\ IF Matching(h, b) = {}
             THEN Dispatch(h, b) = "None"
             ELSE \E k \in Matching(h, b) :
                     /\ Dispatch(h, b) = Registry[k]
                     /\ \A q \in Matching(h, b) : k <= q
          /\ Matching(h, b) = {} =>
                \A s \in Sessions, v \in Servers, c \in Creds, ue \in BOOLEAN :
                   ~ENABLED Changes(CreateData(s, b, h, v, c, ue))
    /\ \A s \in Sessions, n \in JobNames :
          AnalyticsJobFactory(n) = "None" => ~ENABLED Changes(create_job(s, n))
    /\ \A j \in DataJobs : Matching(jobs[j].fingerprint[1], jobs[j].body) # {}
    /\ \A s \in Sessions : sess[s].data_tasks \subseteq DataJobs

(* A tranSMART highdim extraction and an Ada String extraction were
   submitted and are in the session's data tasks; the requests that mix the
   two were refused. *)
C19_Witness ==
    \E s \in Sessions, j, k \in JobIds :
        /\ {j, k} \subseteq sess[s].data_tasks
        /\ jobs[j].fingerprint[1] = "transmart" /\ jobs[j].body = "h1"
        /\ jobs[k].fingerprint[1] = "ada" /\ jobs[k].body = "a1"
        /\ Dispatch("transmart", "a1") = "None"
        /\ Dispatch("ada", "h1") = "None"

(* C20: a saved state never changes once it is stored: no request, of any
   session, changes the record under its id (state, handler, server,
   task ids, descriptors) or removes it, so what get_state_data rewrites for
   one response is not in the record a later get_state_data loads. *)
C20_SavedStateImmutable ==
    [][/\ Len(states') >= Len(states)
       /\ \A i \in 1..Len(states) : states'[i] = states[i]]_vars

(* A session holds a grant whose job is not the one the saved state names,
   and the job has succeeded: get_state_data has a marker to rewrite. *)
C20_Witness ==
    \E s \in Sessions, i \in StateIds :
        /\ HasGrant(s, i)
        /\ Grant(s, i) # states[i].task_ids
        /\ GrantStatuses(s, i) = {"Success"}
        /\ \E u \in Sessions \ {s} : HasGrant(u, i)

(* C22 (as claimed): the assertion of save_state, that there are as many
   markers in the payload as descriptors collected, holds whenever it is
   reached: for every payload with a marker whose task ids all have a data
   state, also when two markers name the same task id, save_state gets past
   the assertion and answers 201. *)
C22_AssertionHolds ==
    \A st \in Templates :
        \A ids \in Orders(SeqToSet(st)) :
            (st # <<>> /\ AllFound(jobs, ids)) =>
                /\ Len(st) = Len(Descriptors(jobs, ids))
                /\ save_state_code(jobs, st, ids) = 201

AnalyticsJobs == {j \in JobIds : jobs[j].kind = "analytics"}

(* The sessions that hold the analytics job j. *)
Holders(j) == {s \in Sessions : j \in sess[s].jobs}

(* C21: a session's job sets hold the jobs it submitted or was given by an
   access request and has not cancelled since.  An analytics job is in the
   set of exactly one session until cancel_job is called for it and in none
   afterwards, so a second poll or cancel is answered not-found; create_job
   adds exactly the new job's id, cancel_job removes exactly the cancelled
   id, a data submission or an access request adds exactly the ids it was
   given; nothing else changes a set, and no step changes the record of more
   than one session. *)
C21_SessionJobSet ==
    [][/\ \A j \in AnalyticsJobs :
             Cardinality(Holders(j)) = IF jobs[j].revoked THEN 0 ELSE 1
       /\ \A s \in Sessions :
             /\ sess[s].jobs \subseteq AnalyticsJobs
             /\ sess[s].data_tasks \subseteq DataJobs
       /\ Len(jobs') # Len(jobs) =>
             \A s \in Sessions, n \in JobNames :
                (AnalyticsJobFactory(n) # "None" /\ create_job(s, n)) =>
                   /\ Len(jobs') = Len(jobs) + 1
                   /\ sess'[s] = [sess[s] EXCEPT !.jobs = @ \cup {Len(jobs')}]
       /\ jobs' # jobs =>
             \A s \in Sessions : \A j \in sess[s].jobs :
                cancel_job(s, j) =>
                   /\ sess'[s] = [sess[s] EXCEPT !.jobs = @ \ {j}]
                   /\ j \notin sess'[s].jobs
       /\ sess' # sess =>
             /\ \A s \in Sessions, i \in 1..MaxStates, c \in Creds :
                   (/\ HasState(states, i)
                    /\ sess'[s] # sess[s]
                    /\ request_state_access(s, i, c)) =>
                      /\ sess'[s].jobs = sess[s].jobs
                      /\ sess'[s].data_tasks =
                            sess[s].data_tasks \cup SeqToSet(sess'[s].state_access[PyStr(i)])
             /\ \A s \in Sessions :
                   /\ sess'[s].jobs # sess[s].jobs =>
                         \/ /\ Len(jobs') = Len(jobs) + 1
                            /\ sess'[s].jobs = sess[s].jobs \cup {Len(jobs')}
                         \/ \E j \in sess[s].jobs :
                               /\ sess'[s].jobs = sess[s].jobs \ {j}
                               /\ jobs'[j].revoked
                   /\ sess[s].data_tasks \subseteq sess'[s].data_tasks
             /\ Cardinality({s \in Sessions : sess'[s] # sess[s]}) <= 1]_vars

(* A session cancelled the analytics job it had created and no longer holds
   it; the other session holds a job it was given by an access request. *)
C21_Witness ==
    \E s, u \in Sessions, j, k \in JobIds, i \in StateIds :
        /\ s # u
        /\ jobs[j].kind = "analytics"
        /\ jobs[j].revoked
        /\ Holders(j) = {}
        /\ HasGrant(u, i)
        /\ k \in SeqToSet(Grant(u, i))
        /\ k \in sess[u].data_tasks
        /\ k \notin sess[s].data_tasks

====
